---- MODULE Spec2Model ----
(***************************************************************************)
(* Model of Src/main.py ("Step A: Input & Prep"): a directory of images is *)
(* listed, the first six are decoded into PhotoAssets, a contact sheet,    *)
(* six normalized copies and summary.json are written.                     *)
(*                                                                         *)
(* File names are sequences of one-character strings, so that Path.suffix, *)
(* str.lower, sorted() and the f-string of the output names are computed.  *)
(* Image sizes are computed with exact integer arithmetic; Pillow uses     *)
(* floats, which agree with the exact value except on an exact tie between *)
(* the two candidates of round_aspect, where the float comparison decides: *)
(* that outcome is the variable fpTie.                                     *)
(***************************************************************************)
EXTENDS Integers, Sequences, FiniteSets, TLC

VARIABLES
    rel,        \* where --outdir lies: "same" as --input, "inside" it, or "apart"
    inDir,      \* the input directory: entry name -> file content
    outDir,     \* the output directory when it is not the input directory
    outExists,  \* whether the output directory exists
    fpTie,      \* how a float tie in round_aspect resolves: "floor" or "ceil"
    pc,         \* position of main
    err,        \* the exception that ended the run, or "none"
    paths,      \* main's local: list_images' result
    assets,     \* main's local: make_assets' list
    ni,         \* save_normalized_images' loop position (index into assets)
    run,        \* number of the current run of main
    written,    \* names written to the output directory by the current run, in order
    prev,       \* what the previous runs did: selections and results
    atStart,    \* the two directories as the current run found them
    probe,      \* input of a size computation checked on its own
    out         \* its result

vars == <<rel, inDir, outDir, outExists, fpTie, pc, err, paths, assets, ni,
          run, written, prev, atStart, probe, out>>

(***************************************************************************)
(* Bounds of the model.                                                    *)
(***************************************************************************)
MaxRuns == 2
MaxShift == 1
SmallDim == 3
Near == 1
MaxAssets == 7

(***************************************************************************)
(* Program constants.                                                      *)
(***************************************************************************)
NeedImages == 6
TileW == 480
TileH == 320
Cols == 3
MaxSideElement == 1600
MaxSideBackground == 2400

(***************************************************************************)
(* Characters and strings.                                                 *)
(***************************************************************************)
Upper == <<"A","B","C","D","E","F","G","H","I","J","K","L","M",
           "N","O","P","Q","R","S","T","U","V","W","X","Y","Z">>
Lower == <<"a","b","c","d","e","f","g","h","i","j","k","l","m",
           "n","o","p","q","r","s","t","u","v","w","x","y","z">>
Digits == <<"0","1","2","3","4","5","6","7","8","9">>

\* The characters in code-point order: '.' < digits < upper < '_' < lower.
CharOrder == <<".">> \o Digits \o Upper \o <<"_">> \o Lower

Code(c) == CHOOSE i \in 1..Len(CharOrder) : CharOrder[i] = c

\* str.lower on one character
ToLower(c) ==
    IF \E i \in 1..Len(Upper) : Upper[i] = c
    THEN Lower[CHOOSE i \in 1..Len(Upper) : Upper[i] = c]
    ELSE c

StrLower(s) == [i \in 1..Len(s) |-> ToLower(s[i])]

\* str.rfind('.') as a 0-based index, -1 when absent
RFindDot(s) ==
    IF \E i \in 1..Len(s) : s[i] = "."
    THEN (CHOOSE i \in 1..Len(s) : s[i] = "." /\ \A j \in (i+1)..Len(s) : s[j] # ".") - 1
    ELSE -1

\* PurePath.suffix of a file name
Suffix(name) ==
    LET i == RFindDot(name)
    IN  IF 0 < i /\ i < Len(name) - 1 THEN SubSeq(name, i + 1, Len(name)) ELSE <<>>

\* str < str: lexicographic by code point
StrLess(a, b) ==
    \E i \in 1..(Len(a) + 1) :
        /\ \A j \in 1..(i-1) : j <= Len(b) /\ a[j] = b[j]
        /\ i <= Len(b)
        /\ (i = Len(a) + 1 \/ Code(a[i]) < Code(b[i]))

\* sorted() of a set of names
RECURSIVE Sorted(_)
Sorted(S) ==
    IF S = {} THEN <<>>
    ELSE LET m == CHOOSE x \in S : \A y \in S \ {x} : StrLess(x, y)
         IN  <<m>> \o Sorted(S \ {m})

Exts == { <<".","j","p","g">>, <<".","j","p","e","g">>, <<".","p","n","g">>,
          <<".","w","e","b","p">>, <<".","t","i","f">>, <<".","t","i","f","f">> }

\* as IsImageName, without the lower-casing of the suffix
IsImageNameCaseSensitive(name) == Suffix(name) \in Exts

IsImageName(name) == StrLower(Suffix(name)) \in Exts

\* the list comprehension and sort of list_images
MatchingSorted(dir) == Sorted({n \in DOMAIN dir : IsImageName(n)})

\* as ListFails, with the comparison off by one
ListFailsOffByOne(dir) == Len(MatchingSorted(dir)) <= NeedImages

ListFails(dir) == Len(MatchingSorted(dir)) < NeedImages

ListImages(dir) == SubSeq(MatchingSorted(dir), 1, NeedImages)

(***************************************************************************)
(* Files and images.                                                       *)
(***************************************************************************)
\* A file: kind "image" (decodable; w x h stored pixels, EXIF orientation
\* orient, 0 when absent), "other" (not an image), "dir", or "json".
ImageFile(w, h, o) == [kind |-> "image", w |-> w, h |-> h, orient |-> o, data |-> <<>>]
OtherFile == [kind |-> "other", w |-> 0, h |-> 0, orient |-> 0, data |-> <<>>]
DirEntry == [kind |-> "dir", w |-> 0, h |-> 0, orient |-> 0, data |-> <<>>]
JsonFile(d) == [kind |-> "json", w |-> 0, h |-> 0, orient |-> 0, data |-> d]

\* Image.open succeeds
Decodable(f) == f.kind = "image"

\* ImageOps.exif_transpose: orientations 5..8 turn the image by 90 degrees
ExifTranspose(f) ==
    IF f.orient \in 5..8 THEN [w |-> f.h, h |-> f.w] ELSE [w |-> f.w, h |-> f.h]

\* load_rgba_with_exif: the in-memory image (its size; pixels are not modelled)
LoadRgbaWithExif(f) == ExifTranspose(f)

Abs(x) == IF x < 0 THEN -x ELSE x
Max(a, b) == IF a >= b THEN a ELSE b
CeilDiv(a, b) == (a + b - 1) \div b

\* min(floor, ceil, key): the candidate with the smaller key, floor first;
\* on an exact tie of two different candidates the float comparison decides.
PickByKey(f, c, kf, kc, tie) ==
    IF f = c \/ kf < kc THEN f
    ELSE IF kc < kf THEN c
    ELSE IF tie = "floor" THEN f ELSE c

\* round_aspect(y * aspect, key = |aspect - n / y|), aspect = W / H
RoundAspectX(W, H, by, tie) ==
    LET f == (by * W) \div H
        c == CeilDiv(by * W, H)
    IN  Max(PickByKey(f, c, Abs(W * by - f * H), Abs(W * by - c * H), tie), 1)

\* round_aspect(x / aspect, key = 0 if n == 0 else |aspect - x / n|)
\* (a floor of 0 has key 0, is kept by min, and max(0, 1) is 1)
RoundAspectY(W, H, bx, tie) ==
    LET f == (bx * H) \div W
        c == CeilDiv(bx * H, W)
    IN  IF f = 0 THEN 1
        ELSE Max(PickByKey(f, c, Abs(W * f - bx * H) * c, Abs(W * c - bx * H) * f, tie), 1)

\* Image.thumbnail((bx, by)) on a W x H image: the resulting size
ThumbnailSize(W, H, bx, by, tie) ==
    IF bx >= W /\ by >= H THEN [w |-> W, h |-> H]
    ELSE IF bx * H >= W * by
         THEN [w |-> RoundAspectX(W, H, by, tie), h |-> by]
         ELSE [w |-> bx, h |-> RoundAspectY(W, H, bx, tie)]

(***************************************************************************)
(* make_assets                                                             *)
(***************************************************************************)
InputArg == <<"i","n">>

\* input_dir / name, and str() of it
PathOf(name) == [dir |-> InputArg, name |-> name]
PathStr(p) == p.dir \o <<"/">> \o p.name

\* as RoleOf, with the background starting one position early
RoleOfOffByOne(i) == IF i < 5 THEN "element" ELSE "background"

RoleOf(i) == IF i < 6 THEN "element" ELSE "background"

\* the PhotoAsset built for the i-th path
MakeAsset(i, p, f) ==
    LET img == LoadRgbaWithExif(f)
    IN  [id |-> i, role |-> RoleOf(i), path |-> PathStr(p),
         width |-> img.w, height |-> img.h, image |-> img]

(***************************************************************************)
(* save_contact_sheet                                                      *)
(***************************************************************************)
\* as SheetRows, rounding down
SheetRowsFloor(n) == n \div Cols

SheetRows(n) == (n + Cols - 1) \div Cols
SheetSize(n) == [w |-> Cols * TileW, h |-> SheetRows(n) * TileH]

\* where the thumbnail of the asset at 0-based index idx is pasted, and its size
Placement(idx, img, tie) ==
    LET t == ThumbnailSize(img.w, img.h, TileW, TileH, tie)
    IN  [x |-> (idx % Cols) * TileW + (TileW - t.w) \div 2,
         y |-> (idx \div Cols) * TileH + (TileH - t.h) \div 2,
         w |-> t.w, h |-> t.h]

ContactSheetName == <<"c","o","n","t","a","c","t","_","s","h","e","e","t",".","p","n","g">>

ContactSheetFile(as, tie) ==
    [kind |-> "image", w |-> SheetSize(Len(as)).w, h |-> SheetSize(Len(as)).h, orient |-> 0,
     data |-> [k \in 1..Len(as) |-> Placement(k - 1, as[k].image, tie)]]

(***************************************************************************)
(* save_normalized_images                                                  *)
(***************************************************************************)
\* as TargetOf, with the two thresholds exchanged
TargetOfSwapped(role) == IF role = "background" THEN MaxSideElement ELSE MaxSideBackground

TargetOf(role) == IF role = "background" THEN MaxSideBackground ELSE MaxSideElement

NormalizedSize(img, role, tie) ==
    IF Max(img.w, img.h) > TargetOf(role)
    THEN ThumbnailSize(img.w, img.h, TargetOf(role), TargetOf(role), tie)
    ELSE [w |-> img.w, h |-> img.h]

RoleChars(role) ==
    IF role = "background" THEN <<"b","a","c","k","g","r","o","u","n","d">>
    ELSE <<"e","l","e","m","e","n","t">>

\* f"{id:02d}" for 0 <= id < 100
Pad2(id) == <<Digits[(id \div 10) + 1], Digits[(id % 10) + 1]>>

\* as NormalizedName, without the id
NormalizedNameNoId(a) == RoleChars(a.role) \o <<".","p","n","g">>

\* f"{a.id:02d}_{a.role}.png"
NormalizedName(a) == Pad2(a.id) \o <<"_">> \o RoleChars(a.role) \o <<".","p","n","g">>

NormalizedFile(a, tie) ==
    LET s == NormalizedSize(a.image, a.role, tie)
    IN  ImageFile(s.w, s.h, 0)

(***************************************************************************)
(* write_summary                                                           *)
(***************************************************************************)
SummaryName == <<"s","u","m","m","a","r","y",".","j","s","o","n">>

\* as SummaryRecord, serializing every field of the asset
SummaryRecordWithImage(a) ==
    [id |-> a.id, role |-> a.role, path |-> a.path, width |-> a.width, height |-> a.height,
     image |-> a.image]

SummaryRecord(a) ==
    [id |-> a.id, role |-> a.role, path |-> a.path, width |-> a.width, height |-> a.height]

SummaryFile(as) == JsonFile([k \in 1..Len(as) |-> SummaryRecord(as[k])])

(***************************************************************************)
(* The file system around a run.                                           *)
(***************************************************************************)
\* The entries an input directory may hold, in no particular order.
CandidateNames == <<
    <<".","p","n","g">>,
    <<"B",".","P","N","G">>,
    <<"a",".","j","p","g">>,
    <<"b",".","j","p","e","g">>,
    <<"c",".","t","x","t">>,
    <<"d",".","w","e","b","p">>,
    <<"e",".","t","i","f">>,
    <<"f",".","T","i","F","f">>,
    <<"g",".","p","n","g">> >>

\* The contents they may have.
Pool == <<
    ImageFile(4000, 3000, 6),
    ImageFile(2000, 1000, 1),
    ImageFile(300, 200, 0),
    ImageFile(1601, 7, 8),
    ImageFile(2401, 2401, 3),
    OtherFile,
    ImageFile(3200, 3, 5) >>

ContentOf(i, shift) == Pool[((i + shift) % Len(Pool)) + 1]

\* first component of the default --outdir "outputs/stepA"
OutputsName == <<"o","u","t","p","u","t","s">>

EmptyDir == [n \in {} |-> OtherFile]

Put(d, n, c) == [x \in DOMAIN d \cup {n} |-> IF x = n THEN c ELSE d[x]]

\* an input directory holding the candidates numbered in S
InputDir(S, shift) ==
    [n \in {CandidateNames[i] : i \in S} |->
        ContentOf(CHOOSE i \in S : CandidateNames[i] = n, shift)]

\* what an output directory left by somebody else may hold
StaleDir ==
    Put(Put(EmptyDir, SummaryName, JsonFile(<<>>)),
        <<"0","7","_","e","l","e","m","e","n","t",".","p","n","g">>, ImageFile(10, 10, 0))

PreOut(r) ==
    IF r = "same" THEN {[exists |-> TRUE, files |-> EmptyDir]}
    ELSE {[exists |-> FALSE, files |-> EmptyDir], [exists |-> TRUE, files |-> EmptyDir]}
         \cup (IF r = "apart" THEN {[exists |-> TRUE, files |-> StaleDir]} ELSE {})

NoProbe == [fn |-> "none"]

\* the files of the output directory
OutFiles == IF rel = "same" THEN inDir ELSE outDir

Init ==
    /\ rel \in {"same", "inside", "apart"}
    /\ fpTie \in {"floor", "ceil"}
    /\ \E S \in SUBSET (1..Len(CandidateNames)), shift \in 0..MaxShift, pre \in PreOut(rel) :
        /\ outExists = pre.exists
        /\ outDir = pre.files
        /\ inDir = IF rel = "inside" /\ pre.exists
                   THEN Put(InputDir(S, shift), OutputsName, DirEntry)
                   ELSE InputDir(S, shift)
    /\ atStart = [inDir |-> inDir, outDir |-> outDir, outExists |-> outExists]
    /\ pc = "start"
    /\ err = "none"
    /\ paths = <<>>
    /\ assets = <<>>
    /\ ni = 0
    /\ run = 1
    /\ written = <<>>
    /\ prev = <<>>
    /\ probe = NoProbe
    /\ out = NoProbe

(***************************************************************************)
(* main, step by step.                                                     *)
(***************************************************************************)
\* as WriteOut, writing beside the inputs
WriteOutBesideInputs(name, content) ==
    /\ inDir' = Put(inDir, name, content)
    /\ UNCHANGED outDir
    /\ written' = Append(written, name)

\* a file is written into the output directory
WriteOut(name, content) ==
    /\ IF rel = "same"
       THEN inDir' = Put(inDir, name, content) /\ UNCHANGED outDir
       ELSE outDir' = Put(outDir, name, content) /\ UNCHANGED inDir
    /\ written' = Append(written, name)

\* outdir.mkdir(parents=True, exist_ok=True)
InDirAfterMkdir ==
    IF rel = "inside" /\ OutputsName \notin DOMAIN inDir
    THEN Put(inDir, OutputsName, DirEntry)
    ELSE inDir

MkOutDir ==
    /\ pc = "start"
    /\ outExists' = TRUE
    /\ inDir' = InDirAfterMkdir
    /\ pc' = "list"
    /\ UNCHANGED <<rel, outDir, fpTie, err, paths, assets, ni, run, written, prev,
                   atStart, probe, out>>

\* paths = list_images(input_dir)
DoListImages ==
    /\ pc = "list"
    /\ IF ListFails(inDir)
       THEN /\ pc' = "failed"
            /\ err' = "ValueError"
            /\ UNCHANGED paths
       ELSE /\ paths' = [k \in 1..NeedImages |-> PathOf(ListImages(inDir)[k])]
            /\ pc' = "decode"
            /\ UNCHANGED err
    /\ UNCHANGED <<rel, inDir, outDir, outExists, fpTie, assets, ni, run, written,
                   prev, atStart, probe, out>>

\* as LoadAsset, leaving the loop after the first image
LoadAssetStopsEarly ==
    /\ pc = "decode"
    /\ LET i == Len(assets) + 1
           p == paths[i]
           f == inDir[p.name]
       IN  IF Decodable(f)
           THEN /\ assets' = Append(assets, MakeAsset(i, p, f))
                /\ pc' = "sheet"
                /\ UNCHANGED err
           ELSE /\ pc' = "failed"
                /\ err' = "UnidentifiedImageError"
                /\ UNCHANGED assets
    /\ UNCHANGED <<rel, inDir, outDir, outExists, fpTie, paths, ni, run, written,
                   prev, atStart, probe, out>>

\* one iteration of make_assets' loop
LoadAsset ==
    /\ pc = "decode"
    /\ LET i == Len(assets) + 1
           p == paths[i]
           f == inDir[p.name]
       IN  IF Decodable(f)
           THEN /\ assets' = Append(assets, MakeAsset(i, p, f))
                /\ pc' = IF i = Len(paths) THEN "sheet" ELSE "decode"
                /\ UNCHANGED err
           ELSE /\ pc' = "failed"
                /\ err' = "UnidentifiedImageError"
                /\ UNCHANGED assets
    /\ UNCHANGED <<rel, inDir, outDir, outExists, fpTie, paths, ni, run, written,
                   prev, atStart, probe, out>>

\* the asset list after save_contact_sheet: thumbnails are made of copies
AssetsAfterSheet(as, tie) == as

\* save_contact_sheet(assets, outdir / "contact_sheet.png")
SaveContactSheet ==
    /\ pc = "sheet"
    /\ WriteOut(ContactSheetName, ContactSheetFile(assets, fpTie))
    /\ assets' = AssetsAfterSheet(assets, fpTie)
    /\ ni' = 1
    /\ pc' = "norm"
    /\ UNCHANGED <<rel, outExists, fpTie, err, paths, run, prev, atStart, probe, out>>

\* as AssetsAfterNormalize, resizing the held image instead of a copy
AssetsAfterNormalizeInPlace(as, i, tie) ==
    [as EXCEPT ![i].image = NormalizedSize(as[i].image, as[i].role, tie)]

\* the asset list after one iteration of save_normalized_images: a copy is resized
AssetsAfterNormalize(as, i, tie) == as

\* one iteration of save_normalized_images' loop
SaveNormalized ==
    /\ pc = "norm"
    /\ WriteOut(NormalizedName(assets[ni]), NormalizedFile(assets[ni], fpTie))
    /\ assets' = AssetsAfterNormalize(assets, ni, fpTie)
    /\ ni' = ni + 1
    /\ pc' = IF ni = Len(assets) THEN "summary" ELSE "norm"
    /\ UNCHANGED <<rel, outExists, fpTie, err, paths, run, prev, atStart, probe, out>>

\* write_summary(assets, outdir / "summary.json")
WriteSummary ==
    /\ pc = "summary"
    /\ WriteOut(SummaryName, SummaryFile(assets))
    /\ pc' = "print"
    /\ UNCHANGED <<rel, outExists, fpTie, err, paths, assets, ni, run, prev, atStart,
                   probe, out>>

\* the closing prints
PrintComplete ==
    /\ pc = "print"
    /\ pc' = "done"
    /\ UNCHANGED <<rel, inDir, outDir, outExists, fpTie, err, paths, assets, ni, run,
                   written, prev, atStart, probe, out>>

\* what is remembered of a run that ended
RunRecord ==
    [ok |-> pc = "done", err |-> err, paths |-> paths,
     roles |-> [k \in 1..Len(assets) |-> [id |-> assets[k].id, role |-> assets[k].role]],
     written |-> written, files |-> OutFiles]

\* main is started again with the same arguments
NextRun ==
    /\ pc \in {"done", "failed"}
    /\ run < MaxRuns
    /\ prev' = Append(prev, RunRecord)
    /\ run' = run + 1
    /\ pc' = "start"
    /\ err' = "none"
    /\ paths' = <<>>
    /\ assets' = <<>>
    /\ ni' = 0
    /\ written' = <<>>
    /\ atStart' = [inDir |-> inDir, outDir |-> outDir, outExists |-> outExists]
    /\ UNCHANGED <<rel, inDir, outDir, outExists, fpTie, probe, out>>

Next ==
    \/ MkOutDir
    \/ DoListImages
    \/ LoadAsset
    \/ SaveContactSheet
    \/ SaveNormalized
    \/ WriteSummary
    \/ PrintComplete
    \/ NextRun

Spec == Init /\ [][Next]_vars

(***************************************************************************)
(* The size computations on their own: save_normalized_images and          *)
(* save_contact_sheet applied to assets of many sizes.                     *)
(***************************************************************************)
Thresholds == {TileH, TileW, 2 * TileH, 2 * TileW, MaxSideElement, MaxSideBackground,
               2 * MaxSideElement, 2 * MaxSideBackground}

Dims == (1..SmallDim) \cup {t + d : t \in Thresholds, d \in (0 - Near)..Near}

SheetDims == (1..SmallDim) \cup {t + d : t \in {TileH, TileW, 2 * TileW, 2 * MaxSideBackground},
                                         d \in (0 - Near)..Near}

ProbeName == <<"p",".","p","n","g">>

IdleMain ==
    /\ rel = "apart"
    /\ inDir = EmptyDir
    /\ outDir = EmptyDir
    /\ outExists = TRUE
    /\ atStart = [inDir |-> EmptyDir, outDir |-> EmptyDir, outExists |-> TRUE]
    /\ pc = "probe"
    /\ err = "none"
    /\ paths = <<>>
    /\ assets = <<>>
    /\ ni = 0
    /\ run = 1
    /\ written = <<>>
    /\ prev = <<>>

\* the asset whose decoded image is w x h, in position id
ProbeAsset(id, w, h) == MakeAsset(id, PathOf(ProbeName), ImageFile(w, h, 0))

InitNorm ==
    /\ IdleMain
    /\ fpTie \in {"floor", "ceil"}
    /\ probe \in [fn : {"normalize"}, id : 1..NeedImages, w : Dims, h : Dims]
    /\ out = NoProbe

\* the body of save_normalized_images' loop on one asset
NormProbe ==
    /\ pc = "probe"
    /\ probe.fn = "normalize"
    /\ out' = [name |-> NormalizedName(ProbeAsset(probe.id, probe.w, probe.h)),
               file |-> NormalizedFile(ProbeAsset(probe.id, probe.w, probe.h), fpTie)]
    /\ pc' = "probed"
    /\ UNCHANGED <<rel, inDir, outDir, outExists, fpTie, err, paths, assets, ni, run,
                   written, prev, atStart, probe>>

SpecNorm == InitNorm /\ [][NormProbe]_vars

\* the decoded sizes of the assets around the one under test
Fillers == {[w |-> 1, h |-> 1], [w |-> 2 * TileW, h |-> 7], [w |-> TileW + 1, h |-> 2 * TileH]}

\* n assets: the one at 0-based index idx is w x h, the others are fill
ProbeAssets(n, idx, w, h, fill) ==
    [k \in 1..n |-> IF k = idx + 1 THEN ProbeAsset(k, w, h) ELSE ProbeAsset(k, fill.w, fill.h)]

InitSheet ==
    /\ IdleMain
    /\ fpTie \in {"floor", "ceil"}
    /\ \E n \in 1..MaxAssets :
         probe \in [fn : {"sheet"}, n : {n}, idx : 0..(n-1), w : SheetDims, h : SheetDims,
                    fill : Fillers]
    /\ out = NoProbe

\* save_contact_sheet on the probe's assets
SheetProbe ==
    /\ pc = "probe"
    /\ probe.fn = "sheet"
    /\ out' = ContactSheetFile(ProbeAssets(probe.n, probe.idx, probe.w, probe.h, probe.fill), fpTie)
    /\ pc' = "probed"
    /\ UNCHANGED <<rel, inDir, outDir, outExists, fpTie, err, paths, assets, ni, run,
                   written, prev, atStart, probe>>

SpecSheet == InitSheet /\ [][SheetProbe]_vars

(***************************************************************************)
(* Properties.                                                             *)
(***************************************************************************)
\* main has just returned from list_images (the directory is as it was listed)
JustListed == (pc = "decode" /\ assets = <<>>) \/ (pc = "failed" /\ err = "ValueError")

\* name ends, ignoring case, in one of the six extensions and has a stem before it
EndsInImageExt(name) ==
    \E e \in { <<".","j","p","g">>, <<".","j","p","e","g">>, <<".","p","n","g">>,
               <<".","w","e","b","p">>, <<".","t","i","f">>, <<".","t","i","f","f">> } :
        /\ Len(name) > Len(e)
        /\ \A j \in 1..Len(e) :
              LET c == name[Len(name) - Len(e) + j]
              IN  c = e[j] \/ (\E u \in 1..Len(Upper) : Upper[u] = c /\ Lower[u] = e[j])

MatchingEntries == {n \in DOMAIN inDir : EndsInImageExt(n)}

Returned == {paths[k].name : k \in 1..Len(paths)}

\* C1: from a directory with at least six entries whose lower-cased suffix is an
\* image extension, list_images returns exactly six paths, all of them matching
\* entries, in ascending order, and every matching entry left out sorts after
\* all six.
C1_SixSmallestSorted ==
    (JustListed /\ Cardinality(MatchingEntries) >= 6) =>
        /\ pc = "decode"
        /\ Len(paths) = 6
        /\ Returned \subseteq MatchingEntries
        /\ \A k \in 1..5 : StrLess(paths[k].name, paths[k+1].name)
        /\ \A m \in MatchingEntries \ Returned : \A k \in 1..6 : StrLess(paths[k].name, m)

\* more than six match, one of the six has an upper-case suffix, and an entry
\* with another suffix sorts among them
C1_Witness ==
    /\ pc = "decode" /\ assets = <<>>
    /\ Cardinality(MatchingEntries) > 6
    /\ \E k \in 1..6 : \E j \in 1..Len(paths[k].name) :
          paths[k].name[j] = "." /\ j < Len(paths[k].name) /\ paths[k].name[j+1] = "P"
    /\ \E n \in DOMAIN inDir \ MatchingEntries :
          StrLess(paths[1].name, n) /\ StrLess(n, paths[6].name)

\* the directories of the run are as the run found them, the output directory's
\* own creation aside
NothingWritten ==
    /\ written = <<>>
    /\ outDir = atStart.outDir
    /\ \A n \in (DOMAIN inDir \cup DOMAIN atStart.inDir) \ {OutputsName} :
          n \in DOMAIN inDir /\ n \in DOMAIN atStart.inDir /\ inDir[n] = atStart.inDir[n]
    /\ (OutputsName \in DOMAIN inDir /\ OutputsName \notin DOMAIN atStart.inDir) =>
          (rel = "inside" /\ ~atStart.outExists /\ inDir[OutputsName].kind = "dir")

\* C2: list_images raises ValueError exactly when fewer than six entries match
\* the extension filter, and a run that fails this way has written no contact
\* sheet, no normalized image and no summary.json: at most the output directory
\* was created.
C2_ValueErrorIffFewerThanSix ==
    /\ JustListed =>
          ((pc = "failed" /\ err = "ValueError") <=> Cardinality(MatchingEntries) < 6)
    /\ (pc = "failed" /\ err = "ValueError") => NothingWritten

\* five entries match beside others that do not, and the run failed after
\* creating the output directory
C2_Witness ==
    /\ pc = "failed" /\ err = "ValueError"
    /\ Cardinality(MatchingEntries) = 5
    /\ Cardinality(DOMAIN inDir) >= 7
    /\ outExists /\ ~atStart.outExists

\* C3: make_assets returns six assets in the order of the paths, with ids 1..6;
\* ids 1..5 are elements and id 6 is the background, so there are exactly five
\* elements and one background, the background being the last file in name order.
C3_IdsAndRoles ==
    pc \in {"sheet", "norm", "summary", "print", "done"} =>
        /\ Len(assets) = 6
        /\ \A k \in 1..6 :
              /\ assets[k].id = k
              /\ assets[k].path = InputArg \o <<"/">> \o paths[k].name
              /\ assets[k].role = (IF k <= 5 THEN "element" ELSE "background")
        /\ Cardinality({k \in 1..6 : assets[k].role = "element"}) = 5
        /\ Cardinality({k \in 1..6 : assets[k].role = "background"}) = 1
        /\ \A k \in 1..5 : StrLess(paths[k].name, paths[6].name)

\* make_assets has just returned
C3_Witness ==
    /\ pc = "sheet"
    /\ Len(assets) = 6
    /\ assets[6].role = "background"

\* C4: save_normalized_images uses a maximum side of 1600 for elements and 2400
\* for the background. An asset of W x H with threshold T is written unchanged in
\* size when max(W, H) <= T; otherwise the written copy's longer side is exactly T
\* and its shorter side is at least 1 and less than 1 away from short * T / long,
\* and no written side exceeds T.
C4_NormalizedSize ==
    (pc = "probed" /\ probe.fn = "normalize") =>
        LET W == probe.w
            H == probe.h
            T == IF probe.id <= 5 THEN 1600 ELSE 2400
            f == out.file
        IN  IF W <= T /\ H <= T
            THEN f.w = W /\ f.h = H
            ELSE /\ f.w <= T /\ f.h <= T
                 /\ W >= H => (f.w = T /\ f.h >= 1 /\ Abs(f.h * W - H * T) < W)
                 /\ H >= W => (f.h = T /\ f.w >= 1 /\ Abs(f.w * H - W * T) < H)

\* a background was scaled down and its shorter side had to be rounded
C4_Witness ==
    /\ pc = "probed" /\ probe.fn = "normalize"
    /\ probe.id = 6
    /\ probe.w > 2400 /\ probe.h < probe.w
    /\ out.file.w = 2400
    /\ out.file.h * probe.w # probe.h * 2400

\* the file as make_assets found it
FileAtStart(k) == atStart.inDir[paths[k].name]

\* C5: summary.json holds one record per asset in the order of the asset list
\* (ids 1..6), each with exactly the keys id, role, path, width, height; path is
\* the selected input file's path, width and height are those of the decoded
\* image after the EXIF orientation correction (swapped for the orientations
\* that turn by 90 degrees), and the image itself is not serialized.
C5_SummaryRecords ==
    pc \in {"print", "done"} =>
        LET sum == OutFiles[SummaryName]
        IN  /\ sum.kind = "json"
            /\ Len(sum.data) = 6
            /\ \A k \in 1..6 :
                  LET r == sum.data[k]
                      f == FileAtStart(k)
                      turned == f.orient \in {5, 6, 7, 8}
                  IN  /\ DOMAIN r = {"id", "role", "path", "width", "height"}
                      /\ r.id = k
                      /\ r.role = assets[k].role
                      /\ r.path = InputArg \o <<"/">> \o paths[k].name
                      /\ r.width = (IF turned THEN f.h ELSE f.w)
                      /\ r.height = (IF turned THEN f.w ELSE f.h)

\* a summary was written that holds an image stored turned by 90 degrees
C5_Witness ==
    /\ pc = "done"
    /\ \E k \in 1..6 :
          /\ FileAtStart(k).orient \in {5, 6, 7, 8}
          /\ FileAtStart(k).w # FileAtStart(k).h
          /\ OutFiles[SummaryName].data[k].width = FileAtStart(k).h

\* C6: save_contact_sheet lays n assets on a sheet of 3*480 by ceil(n/3)*320
\* pixels (1440 x 640 for six). The asset at index idx goes to the tile at column
\* idx mod 3, row idx div 3: its thumbnail is at most 480 x 320, lies inside that
\* tile (no negative offset, no overlap with another thumbnail, nothing beyond
\* the sheet) and is centred, the opposite margins differing by at most a pixel.
C6_ContactSheetLayout ==
    (pc = "probed" /\ probe.fn = "sheet") =>
        LET n == probe.n
            rows == CHOOSE r \in 1..n : 3 * r >= n /\ 3 * (r - 1) < n
            P(k) == out.data[k]
            left(k) == P(k).x - ((k - 1) % 3) * 480
            right(k) == (((k - 1) % 3) + 1) * 480 - (P(k).x + P(k).w)
            top(k) == P(k).y - ((k - 1) \div 3) * 320
            bottom(k) == (((k - 1) \div 3) + 1) * 320 - (P(k).y + P(k).h)
        IN  /\ out.w = 3 * 480 /\ out.h = rows * 320
            /\ n = 6 => (out.w = 1440 /\ out.h = 640)
            /\ Len(out.data) = n
            /\ \A k \in 1..n :
                  /\ P(k).w >= 1 /\ P(k).w <= 480 /\ P(k).h >= 1 /\ P(k).h <= 320
                  /\ P(k).x >= 0 /\ P(k).y >= 0
                  /\ left(k) >= 0 /\ right(k) >= 0 /\ top(k) >= 0 /\ bottom(k) >= 0
                  /\ Abs(left(k) - right(k)) <= 1 /\ Abs(top(k) - bottom(k)) <= 1
                  /\ P(k).x + P(k).w <= out.w /\ P(k).y + P(k).h <= out.h
            /\ \A k \in 1..n : \A j \in 1..n :
                  k # j => \/ P(k).x + P(k).w <= P(j).x \/ P(j).x + P(j).w <= P(k).x
                           \/ P(k).y + P(k).h <= P(j).y \/ P(j).y + P(j).h <= P(k).y

\* seven assets on three rows, one of them scaled down to a thumbnail whose
\* margins cannot be equal
C6_Witness ==
    /\ pc = "probed" /\ probe.fn = "sheet"
    /\ probe.n = 7 /\ out.h = 960
    /\ \E k \in 1..probe.n :
          /\ k = probe.idx + 1
          /\ probe.w > 480
          /\ out.data[k].w = 480
          /\ (320 - out.data[k].h) % 2 = 1

\* the eight output names, in the order main writes them
ExpectedWrites == <<
    <<"c","o","n","t","a","c","t","_","s","h","e","e","t",".","p","n","g">>,
    <<"0","1","_","e","l","e","m","e","n","t",".","p","n","g">>,
    <<"0","2","_","e","l","e","m","e","n","t",".","p","n","g">>,
    <<"0","3","_","e","l","e","m","e","n","t",".","p","n","g">>,
    <<"0","4","_","e","l","e","m","e","n","t",".","p","n","g">>,
    <<"0","5","_","e","l","e","m","e","n","t",".","p","n","g">>,
    <<"0","6","_","b","a","c","k","g","r","o","u","n","d",".","p","n","g">>,
    <<"s","u","m","m","a","r","y",".","j","s","o","n">> >>

\* the output directory's files as the current run found them
OutFilesAtStart == IF rel = "same" THEN atStart.inDir ELSE atStart.outDir

\* C7: main selects the six files, decodes all six, writes the contact sheet,
\* the six normalized copies in id order, summary.json, and then prints. So no
\* artifact is written before all six inputs are decoded, and in a run that
\* began with an empty output directory, whenever summary.json exists the
\* contact sheet and the six normalized images exist too.
C7_FixedOrder ==
    /\ Len(written) <= 8
    /\ \A k \in 1..Len(written) : written[k] = ExpectedWrites[k]
    /\ assets # <<>> => Len(paths) = 6
    /\ written # <<>> => Len(assets) = 6
    /\ pc \in {"print", "done"} => Len(written) = 8
    /\ pc \in {"start", "list", "decode", "sheet"} => written = <<>>
    /\ (DOMAIN OutFilesAtStart = {} /\ ExpectedWrites[8] \in DOMAIN OutFiles) =>
          \A k \in 1..7 : ExpectedWrites[k] \in DOMAIN OutFiles

\* a first run into an empty output directory is between two normalized copies
C7_Witness ==
    /\ DOMAIN OutFilesAtStart = {}
    /\ pc = "norm"
    /\ Len(written) = 4
    /\ ExpectedWrites[4] \in DOMAIN OutFiles
    /\ ExpectedWrites[5] \notin DOMAIN OutFiles

\* C8: save_contact_sheet and save_normalized_images leave every asset as
\* make_assets built it (id, role, path, width, height and held image), so the
\* width and height in summary.json are those of the full-size oriented input
\* whatever the thresholds and the tile size, also when the normalized copy on
\* disk was scaled down.
C8_AssetsUntouched ==
    pc \in {"norm", "summary", "print", "done"} =>
        \A k \in 1..6 :
            LET f == FileAtStart(k)
                W == IF f.orient \in {5, 6, 7, 8} THEN f.h ELSE f.w
                H == IF f.orient \in {5, 6, 7, 8} THEN f.w ELSE f.h
            IN  /\ assets[k] = [id |-> k, role |-> IF k <= 5 THEN "element" ELSE "background",
                                path |-> InputArg \o <<"/">> \o paths[k].name,
                                width |-> W, height |-> H, image |-> [w |-> W, h |-> H]]
                /\ pc \in {"print", "done"} =>
                      /\ OutFiles[SummaryName].data[k].width = W
                      /\ OutFiles[SummaryName].data[k].height = H

\* the run is over and a normalized copy on disk is smaller than the summary says
C8_Witness ==
    /\ pc = "done"
    /\ \E k \in 1..6 :
          /\ OutFiles[ExpectedWrites[k + 1]].w < OutFiles[SummaryName].data[k].width
          /\ OutFiles[ExpectedWrites[k + 1]].w < assets[k].image.w

\* C9: a successful run writes exactly eight files into the output directory,
\* with pairwise distinct names that do not depend on the input names:
\* contact_sheet.png, 01_element.png .. 05_element.png, 06_background.png and
\* summary.json. No write of the run replaces a file the run wrote before.
C9_EightDistinctFiles ==
    /\ \A i \in 1..Len(written) : \A j \in 1..Len(written) : i # j => written[i] # written[j]
    /\ pc = "done" =>
          /\ Len(written) = 8
          /\ {written[k] : k \in 1..8} = {ExpectedWrites[k] : k \in 1..8}
          /\ Cardinality({written[k] : k \in 1..8}) = 8
          /\ DOMAIN OutFiles = DOMAIN OutFilesAtStart \cup {ExpectedWrites[k] : k \in 1..8}
          /\ \A k \in 1..7 : OutFiles[ExpectedWrites[k]].kind = "image"
          /\ OutFiles[ExpectedWrites[8]].kind = "json"

\* a successful run into a directory that held other files before
C9_Witness ==
    /\ pc = "done"
    /\ rel = "apart"
    /\ Cardinality(DOMAIN OutFiles) > 8

\* the current run agrees with the earlier run r as far as it has come
SameAsEarlier(r) ==
    /\ pc \in {"decode", "sheet", "norm", "summary", "print", "done"} => r.paths = paths
    /\ pc \in {"sheet", "norm", "summary", "print", "done"} =>
          r.roles = [k \in 1..Len(assets) |-> [id |-> assets[k].id, role |-> assets[k].role]]
    /\ pc = "failed" => (~r.ok /\ r.err = err /\ r.paths = paths)
    /\ pc = "done" => (r.ok /\ r.written = written /\ r.files = OutFiles)

\* C10 as stated: with an output directory that is not the input directory,
\* every run selects the same six files, assigns the same ids and roles and
\* leaves the same output files with the same summary records, and no run
\* creates, deletes or modifies an entry of the input directory.
C10_AsStated ==
    rel # "same" =>
        /\ \A i \in 1..Len(prev) : SameAsEarlier(prev[i])
        /\ inDir = atStart.inDir

\* C10 (amended): the same, except that a run may create the output directory
\* (or the first missing directory on the way to it) as an entry of the input
\* directory when the output directory lies inside the input directory; no
\* other entry is created, and none is deleted or modified.
C10_Idempotent ==
    rel # "same" =>
        /\ \A i \in 1..Len(prev) : SameAsEarlier(prev[i])
        /\ \A n \in DOMAIN inDir \cup DOMAIN atStart.inDir :
              \/ n \in DOMAIN inDir /\ n \in DOMAIN atStart.inDir /\ inDir[n] = atStart.inDir[n]
              \/ /\ rel = "inside" /\ n = OutputsName /\ ~atStart.outExists
                 /\ n \notin DOMAIN atStart.inDir /\ inDir[n].kind = "dir"

\* a second successful run after a successful first one, the output directory
\* lying inside the input directory
C10_Witness ==
    /\ run = 2 /\ pc = "done"
    /\ rel = "inside"
    /\ prev[1].ok
    /\ OutputsName \in DOMAIN inDir

====
